---- MODULE Spec2Model ----
(***************************************************************************)
(* Model of the ehandlers exception helpers                                *)
(* (ehandlers/except_handlers: handlers.py, messages.py, tools.py).        *)
(*                                                                         *)
(* One call of an entry point is in progress at a time.  The orchestrators *)
(* run as the sequence of positions                                        *)
(*     idle -> log_err -> log_write -> raise_except -> done -> idle        *)
(* so that the order "sink write, then raise" is visible in a behaviour.   *)
(***************************************************************************)
EXTENDS Integers, Sequences, FiniteSets, TLC

(***************************************************************************)
(* Bounds of the model.                                                    *)
(***************************************************************************)
\* deepest user call stack from which an entry point is invoked
MaxDepth == 2
\* longest template (in fields and literal pieces) given to custom_msg_err
MaxTemplateLen == 3

(***************************************************************************)
(* Python values.  Every value is a record of the same shape so that any   *)
(* two of them can be compared:                                            *)
(*   kind "none"      None                                                 *)
(*   kind "instance"  an Exception instance: type(args...)                 *)
(*   kind "type"      a class that is a subclass of Exception              *)
(*   kind "class"     any other class (int, ...)                           *)
(*   kind "str"       a string, held in args[1]                            *)
(*   kind "int"       an integer, held in num                              *)
(***************************************************************************)
None == [kind |-> "none", type |-> "NoneType", args |-> <<>>, num |-> 0]

ExcInstance(t, a) == [kind |-> "instance", type |-> t, args |-> a, num |-> 0]

ExcType(t) == [kind |-> "type", type |-> t, args |-> <<>>, num |-> 0]

OtherClass(t) == [kind |-> "class", type |-> t, args |-> <<>>, num |-> 0]

StrVal(s) == [kind |-> "str", type |-> "str", args |-> <<s>>, num |-> 0]

IntVal(n) == [kind |-> "int", type |-> "int", args |-> <<>>, num |-> n]

\* an optional string argument (annotation, message): absent or a string
Absent == [some |-> FALSE, val |-> ""]

Some(s) == [some |-> TRUE, val |-> s]

\* logging.ERROR, the default log_level of the entry points
ERROR == 40

\* logging.WARNING, the level below ERROR
WARNING == ERROR - 10

(***************************************************************************)
(* Input domains.                                                          *)
(***************************************************************************)
ExcTypeNames == {"ValueError", "KeyError"}

Messages == {"bad key"}

ExcInstances ==
    {ExcInstance(t, <<>>) : t \in ExcTypeNames}
        \cup {ExcInstance(t, <<m>>) : t \in ExcTypeNames, m \in Messages}

ExcTypes == {ExcType(t) : t \in ExcTypeNames}

Strings == {StrVal("plain text")}

OptAnnotations == {Absent, Some(""), Some("note")}

OptMessages == {Absent, Some(""), Some("missing id")}

LogLevels == {WARNING, ERROR}

\* **log_kwargs handed through to Logger.log, as a set of keyword names
LogKwargs == {{}, {"exc_info"}}

\* source_func: None, a name, a function object, or a value of another type
SourceFuncs ==
    { [kind |-> "none", name |-> ""],
      [kind |-> "str", name |-> "loadConfig"],
      [kind |-> "str", name |-> ""],
      [kind |-> "callable", name |-> "read_json"],
      [kind |-> "other", name |-> ""] }

\* the function name of the i-th frame of the user's call stack
FrameName(i) == IF i = 1 THEN "<module>" ELSE "fn" \o ToString(i)

UserStack(d) == [i \in 1..d |-> FrameName(i)]

(***************************************************************************)
(* tools.py                                                                *)
(***************************************************************************)
is_exc_instance(obj) == obj.kind = "instance"

isclass(obj) == obj.kind \in {"type", "class"}

is_exc_type(obj) ==
    LET is_instance == is_exc_instance(obj)
        is_exc_class == isclass(obj) /\ obj.kind = "type"
    IN  ~is_instance /\ is_exc_class

(***************************************************************************)
(* Python conversions used by the f-strings and str.format.                *)
(***************************************************************************)
\* repr() of a string without quotes inside it
PyRepr(s) == "'" \o s \o "'"

\* str(e) of an exception instance: "" without arguments, the argument with
\* one; KeyError shows the repr of its single argument
ExcStr(e) ==
    IF Len(e.args) = 0 THEN ""
    ELSE IF e.type = "KeyError" THEN PyRepr(e.args[1])
    ELSE e.args[1]

\* str(v)
PyStr(v) ==
    CASE v.kind = "instance" -> ExcStr(v)
      [] v.kind \in {"type", "class"} -> "<class '" \o v.type \o "'>"
      [] v.kind = "str" -> v.args[1]
      [] v.kind = "int" -> ToString(v.num)
      [] OTHER -> "None"

\* bool(v): None, "" and 0 are false; exceptions and classes are true
Truthy(v) ==
    CASE v.kind = "none" -> FALSE
      [] v.kind = "str" -> v.args[1] # ""
      [] v.kind = "int" -> v.num # 0
      [] OTHER -> TRUE

\* bool(s) of an optional string: None and "" are false
TruthyOpt(o) == o.some /\ o.val # ""

(***************************************************************************)
(* messages.py                                                             *)
(***************************************************************************)
get_err_str(err) ==
    IF is_exc_instance(err)
    THEN err.type \o ": " \o PyStr(err)
    ELSE PyStr(err)

simple_msg_err(err, func_name) ==
    "<" \o func_name \o "> " \o get_err_str(err)

annotated_msg_err(err, func_name, err_annotated) ==
    "<" \o func_name \o "> " \o err_annotated \o ": " \o get_err_str(err)

\* mutant: the annotation is tested for truth instead of for None
get_simple_or_annotated_truthy(err, func_name, err_annotated) ==
    IF ~TruthyOpt(err_annotated)
    THEN simple_msg_err(err, func_name)
    ELSE annotated_msg_err(err, func_name, err_annotated.val)

get_simple_or_annotated(err, func_name, err_annotated) ==
    IF ~err_annotated.some
    THEN simple_msg_err(err, func_name)
    ELSE annotated_msg_err(err, func_name, err_annotated.val)

(***************************************************************************)
(* custom_msg_err.  A template is a sequence of pieces: a literal text or  *)
(* a replacement field {key}.  str.format walks the template from the left *)
(* and raises KeyError(key) at the first field whose key the keyword       *)
(* arguments lack.                                                         *)
(***************************************************************************)
Lit(s) == [isKey |-> FALSE, text |-> s]

Field(k) == [isKey |-> TRUE, text |-> k]

\* dict.setdefault(key, value)
setdefault(d, key, value) ==
    IF key \in DOMAIN d
    THEN d
    ELSE [k \in DOMAIN d \cup {key} |-> IF k = key THEN value ELSE d[k]]

RECURSIVE format(_, _)
\* template.format(**context): [ok, text, key]
format(template, context) ==
    IF template = <<>>
    THEN [ok |-> TRUE, text |-> "", key |-> ""]
    ELSE LET piece == Head(template)
             rest == format(Tail(template), context)
         IN  IF piece.isKey /\ piece.text \notin DOMAIN context
             THEN [ok |-> FALSE, text |-> "", key |-> piece.text]
             ELSE IF ~rest.ok
             THEN rest
             ELSE [ok |-> TRUE,
                   text |-> (IF piece.isKey
                             THEN PyStr(context[piece.text])
                             ELSE piece.text) \o rest.text,
                   key |-> ""]

\* mutant: func_name is not added to the keyword arguments
custom_msg_err_no_func_name(err, func_name, template_msg_err, template_context) ==
    LET c1 == setdefault(template_context, "err", err)
        r == format(template_msg_err, c1)
    IN  IF r.ok
        THEN [raised |-> None, text |-> r.text]
        ELSE [raised |-> ExcInstance("KeyError", <<r.key>>), text |-> ""]

custom_msg_err(err, func_name, template_msg_err, template_context) ==
    LET c1 == setdefault(template_context, "err", err)
        c2 == setdefault(c1, "func_name", StrVal(func_name))
        r == format(template_msg_err, c2)
    IN  IF r.ok
        THEN [raised |-> None, text |-> r.text]
        ELSE [raised |-> ExcInstance("KeyError", <<r.key>>), text |-> ""]

(***************************************************************************)
(* handlers.py: the functions.                                             *)
(***************************************************************************)
\* err(*a): an instance of the exception class err
Instantiate(err, a) == ExcInstance(err.type, a)

\* the text of the TypeError of raise_type, after the offending value (the
\* source's text is Russian; its wording is immaterial here)
NotExcTypeText == " must be an exception class type"

\* the text of the AttributeError of get_log_obj (Russian in the source)
NoLogObjText == "no logging object"

\* mutant: the argument is not checked to be an exception class
raise_type_unchecked(err, msg) ==
    IF TruthyOpt(msg)
    THEN Instantiate(err, <<msg.val>>)
    ELSE Instantiate(err, <<>>)

\* what raise_type raises
raise_type(err, msg) ==
    IF ~is_exc_type(err)
    THEN ExcInstance("TypeError", <<PyStr(err) \o NotExcTypeText>>)
    ELSE IF TruthyOpt(msg)
    THEN Instantiate(err, <<msg.val>>)
    ELSE Instantiate(err, <<>>)

\* mutant: a missing logger is silently replaced by a default one
get_log_obj_default(log) == None

\* log_err.get_log_obj: what it raises, None when it returns the logger
get_log_obj(log) ==
    IF ~log
    THEN raise_type(ExcType("AttributeError"), Some(NoLogObjText))
    ELSE None

\* log_err.get_func_name
get_func_name(fn) ==
    LET fn1 == IF fn.kind \notin {"str", "callable"}
               THEN [kind |-> "callable", name |-> "log_err"]
               ELSE fn
    IN  fn1.name

\* inspect.getframeinfo(inspect.currentframe().f_back).function, read in the
\* function whose frame is on top of st
f_back(st) == st[Len(st) - 1]

\* mutant: err_raise is ignored
raise_except_no_replace(err, err_raise, from_err) ==
    LET err1 == IF is_exc_type(err) THEN Instantiate(err, <<>>) ELSE err
    IN  [raised |-> err1, cause |-> None]

\* mutant: the message is not used to instantiate the class
make_exc_err_no_message(err, err_message) == err

\* raise_err_and_log's exc_err: the class instantiated with the message when
\* err is an exception class and the message is true, else err itself
make_exc_err(err, err_message) ==
    IF is_exc_type(err) /\ TruthyOpt(err_message)
    THEN Instantiate(err, <<err_message.val>>)
    ELSE err

\* mutant: the orchestrator leaves source_func as it was passed
resolve_source_func_skip(sf, st) == sf

\* the orchestrators' "if source_func is None": st is the stack with the
\* orchestrator's frame on top
resolve_source_func(sf, st) ==
    IF sf.kind = "none" THEN [kind |-> "str", name |-> f_back(st)] ELSE sf

\* mutant: the keyword arguments are not handed to the logger
log_no_kwargs(log_level, err_msg, log_kwargs) ==
    [level |-> log_level, msg |-> err_msg, kwargs |-> {}]

\* log_obj.log(log_level, err_msg, **log_kwargs): the call the sink receives
log(log_level, err_msg, log_kwargs) ==
    [level |-> log_level, msg |-> err_msg, kwargs |-> log_kwargs]

\* raise_except: the exception raised and its __cause__.  The orchestrators
\* are given exception instances and classes only, so "raise err" has an
\* exception to raise
raise_except(err, err_raise, from_err) ==
    LET err1 == IF is_exc_type(err) THEN Instantiate(err, <<>>) ELSE err
        err_raise1 == IF is_exc_type(err_raise)
                      THEN Instantiate(err_raise, <<>>)
                      ELSE err_raise
    IN  IF Truthy(err_raise1)
        THEN \* raise err_raise from (err if from_err else err_raise)
             [raised |-> err_raise1,
              cause |-> IF from_err THEN err1 ELSE err_raise1]
        ELSE [raised |-> err1, cause |-> None]

(***************************************************************************)
(* State.                                                                  *)
(***************************************************************************)
VARIABLES
    pc,          \* position of the call in progress
    op,          \* the entry point the user called
    args,        \* the arguments the user passed
    stack,       \* function names of the frames, outermost first
    source_func, \* source_func as bound in the running orchestrator
    exc_err,     \* the value handed to log_err and raise_except
    func_name,   \* func_name of log_err
    sink,        \* the calls log_obj.log received during this call
    raised,      \* the exception that left the entry point, None if none
    cause,       \* __cause__ of raised
    returned,    \* the entry point returned normally
    result       \* the value custom_msg_err returned

vars == <<pc, op, args, stack, source_func, exc_err, func_name, sink,
          raised, cause, returned, result>>

LibFrames == {"intercept_err_and_log", "raise_err_and_log", "log_err",
              "raise_type", "custom_msg_err"}

\* the user's frames, left when an exception leaves the library
UserPart(st) == SelectSeq(st, LAMBDA f : f \notin LibFrames)

NoSource == [kind |-> "none", name |-> ""]

NoArgs ==
    [err |-> None, err_annotated |-> Absent, err_raise |-> None,
     log_obj |-> FALSE, log_level |-> ERROR, from_err |-> TRUE,
     source_func |-> NoSource, log_kwargs |-> {}, err_message |-> Absent,
     template |-> <<>>, context |-> <<>>]

Init ==
    /\ pc = "idle"
    /\ op = ""
    /\ args = NoArgs
    /\ stack = <<>>
    /\ source_func = NoSource
    /\ exc_err = None
    /\ func_name = ""
    /\ sink = <<>>
    /\ raised = None
    /\ cause = None
    /\ returned = FALSE
    /\ result = ""

(***************************************************************************)
(* More input domains.                                                     *)
(***************************************************************************)
\* err of the orchestrators: an exception instance or an exception class
Payloads == ExcInstances \cup ExcTypes

\* err_raise, when given
Replacements == {ExcInstance("RuntimeError", <<"wrapped">>),
                 ExcType("RuntimeError")}

\* what a caller may hand to raise_type
RaiseTypeArgs ==
    ExcTypes \cup ExcInstances \cup Strings \cup {OtherClass("int"), None}

Pieces == {Lit("hit "), Field("err"), Field("func_name"), Field("code"),
           Field("user")}

Templates == UNION {[1..n -> Pieces] : n \in 0..MaxTemplateLen}

\* the value each extra keyword has when it is passed
ContextValue(k) == IF k = "code" THEN IntVal(404) ELSE StrVal("ann")

\* **template_context: Python binds the keywords err, func_name and
\* template_msg_err to the parameters, so they never arrive here
Contexts == {[k \in ks |-> ContextValue(k)] : ks \in SUBSET {"code", "user"}}

(***************************************************************************)
(* Actions.                                                                *)
(***************************************************************************)
\* intercept_err_and_log up to its call of log_err
Call_intercept_err_and_log ==
    /\ pc = "idle"
    /\ \E err \in Payloads, ann \in OptAnnotations,
          er \in {None} \cup Replacements, lg \in BOOLEAN,
          lv \in LogLevels, fe \in BOOLEAN, sf \in SourceFuncs,
          kw \in LogKwargs, d \in 1..MaxDepth :
          LET st == Append(UserStack(d), "intercept_err_and_log")
          IN  /\ op' = "intercept_err_and_log"
              /\ args' = [NoArgs EXCEPT !.err = err, !.err_annotated = ann,
                              !.err_raise = er, !.log_obj = lg,
                              !.log_level = lv, !.from_err = fe,
                              !.source_func = sf, !.log_kwargs = kw]
              /\ stack' = st
              /\ source_func' = resolve_source_func(sf, st)
              /\ exc_err' = err
    /\ pc' = "log_err"
    /\ UNCHANGED <<func_name, sink, raised, cause, returned, result>>

\* raise_err_and_log up to its call of log_err
Call_raise_err_and_log ==
    /\ pc = "idle"
    /\ \E err \in Payloads, msg \in OptMessages, ann \in OptAnnotations,
          lg \in BOOLEAN, lv \in LogLevels, sf \in SourceFuncs,
          d \in 1..MaxDepth :
          LET st == Append(UserStack(d), "raise_err_and_log")
          IN  /\ op' = "raise_err_and_log"
              /\ args' = [NoArgs EXCEPT !.err = err, !.err_message = msg,
                              !.err_annotated = ann, !.log_obj = lg,
                              !.log_level = lv, !.source_func = sf]
              /\ stack' = st
              /\ source_func' = resolve_source_func(sf, st)
              /\ exc_err' = make_exc_err(err, msg)
    /\ pc' = "log_err"
    /\ UNCHANGED <<func_name, sink, raised, cause, returned, result>>

\* the user calls log_err
Call_log_err ==
    /\ pc = "idle"
    /\ \E err \in Payloads \cup Strings, ann \in OptAnnotations,
          lg \in BOOLEAN, lv \in LogLevels, sf \in SourceFuncs,
          kw \in LogKwargs, d \in 1..MaxDepth :
          /\ op' = "log_err"
          /\ args' = [NoArgs EXCEPT !.err = err, !.err_annotated = ann,
                          !.log_obj = lg, !.log_level = lv,
                          !.source_func = sf, !.log_kwargs = kw]
          /\ stack' = UserStack(d)
          /\ source_func' = sf
          /\ exc_err' = err
    /\ pc' = "log_err"
    /\ UNCHANGED <<func_name, sink, raised, cause, returned, result>>

\* log_err from its entry to the logger check
LogErrEnter ==
    /\ pc = "log_err"
    /\ LET st == Append(stack, "log_err")
           fname == IF source_func.kind = "none"
                    THEN f_back(st)
                    ELSE get_func_name(source_func)
           failed == get_log_obj(args.log_obj)
       IN  IF failed # None
           THEN /\ raised' = failed
                /\ stack' = UserPart(stack)
                /\ pc' = "done"
                /\ UNCHANGED func_name
           ELSE /\ func_name' = fname
                /\ stack' = st
                /\ pc' = "log_write"
                /\ UNCHANGED raised
    /\ UNCHANGED <<op, args, source_func, exc_err, sink, cause, returned,
                   result>>

\* mutant: log_err returns without writing
LogErrWrite_no_write ==
    /\ pc = "log_write"
    /\ stack' = SubSeq(stack, 1, Len(stack) - 1)
    /\ IF op = "log_err"
       THEN pc' = "done" /\ returned' = TRUE
       ELSE pc' = "raise_except" /\ UNCHANGED returned
    /\ UNCHANGED <<op, args, source_func, exc_err, func_name, sink, raised,
                   cause, result>>

\* log_err: format the message, write it, return
LogErrWrite ==
    /\ pc = "log_write"
    /\ LET err_msg == get_simple_or_annotated(exc_err, func_name,
                                              args.err_annotated)
       IN  sink' = Append(sink, log(args.log_level, err_msg,
                                    args.log_kwargs))
    /\ stack' = SubSeq(stack, 1, Len(stack) - 1)
    /\ IF op = "log_err"
       THEN pc' = "done" /\ returned' = TRUE
       ELSE pc' = "raise_except" /\ UNCHANGED returned
    /\ UNCHANGED <<op, args, source_func, exc_err, func_name, raised, cause,
                   result>>

\* the orchestrator's call of raise_except
RaiseExcept ==
    /\ pc = "raise_except"
    /\ LET r == IF op = "intercept_err_and_log"
                THEN raise_except(exc_err, args.err_raise, args.from_err)
                ELSE raise_except(exc_err, None, TRUE)
       IN  raised' = r.raised /\ cause' = r.cause
    /\ stack' = UserPart(stack)
    /\ pc' = "done"
    /\ UNCHANGED <<op, args, source_func, exc_err, func_name, sink, returned,
                   result>>

\* the user calls raise_type
Call_raise_type ==
    /\ pc = "idle"
    /\ \E err \in RaiseTypeArgs, msg \in OptMessages, d \in 1..MaxDepth :
          /\ op' = "raise_type"
          /\ args' = [NoArgs EXCEPT !.err = err, !.err_message = msg]
          /\ stack' = UserStack(d)
          /\ raised' = raise_type(err, msg)
    /\ pc' = "done"
    /\ UNCHANGED <<source_func, exc_err, func_name, sink, cause, returned,
                   result>>

\* the user calls custom_msg_err
Call_custom_msg_err ==
    /\ pc = "idle"
    /\ \E err \in Payloads \cup Strings, fn \in {"handler", ""},
          t \in Templates, c \in Contexts :
          LET r == custom_msg_err(err, fn, t, c)
          IN  /\ op' = "custom_msg_err"
              /\ args' = [NoArgs EXCEPT !.err = err,
                              !.source_func = [kind |-> "str", name |-> fn],
                              !.template = t, !.context = c]
              /\ raised' = r.raised
              /\ result' = r.text
              /\ returned' = (r.raised = None)
    /\ stack' = UserStack(1)
    /\ pc' = "done"
    /\ UNCHANGED <<source_func, exc_err, func_name, sink, cause>>

\* the call is over; the next one starts from a clean slate with a new sink
Finish ==
    /\ pc = "done"
    /\ pc' = "idle"
    /\ op' = ""
    /\ args' = NoArgs
    /\ stack' = <<>>
    /\ source_func' = NoSource
    /\ exc_err' = None
    /\ func_name' = ""
    /\ sink' = <<>>
    /\ raised' = None
    /\ cause' = None
    /\ returned' = FALSE
    /\ result' = ""

Next ==
    \/ Call_intercept_err_and_log
    \/ Call_raise_err_and_log
    \/ Call_log_err
    \/ LogErrEnter
    \/ LogErrWrite
    \/ RaiseExcept
    \/ Call_raise_type
    \/ Call_custom_msg_err
    \/ Finish

Spec == Init /\ [][Next]_vars

(***************************************************************************)
(* Vocabulary of the properties.                                           *)
(***************************************************************************)
Orchestrators == {"intercept_err_and_log", "raise_err_and_log"}

\* the exception a raise statement raises for v: v itself when it is an
\* instance, a fresh argument-less instance when it is an exception class
AsRaised(v) == IF v.kind = "type" THEN ExcInstance(v.type, <<>>) ELSE v

IsError(v, t) == v.kind = "instance" /\ v.type = t

\* the function that called the entry point the user invoked
Caller == LET u == UserPart(stack) IN u[Len(u)]

\* reference rendering of an exception value (spec 4.1)
Rendered(e) ==
    CASE e.kind = "instance" ->
             e.type \o ": " \o (IF e.args = <<>> THEN ""
                                ELSE IF e.type = "KeyError"
                                THEN "'" \o e.args[1] \o "'"
                                ELSE e.args[1])
      [] e.kind = "str" -> e.args[1]
      [] OTHER -> "<class '" \o e.type \o "'>"

\* reference formatter (spec 4.1, 8.1, 8.2)
RefFormat(e, s, a) ==
    IF a = Absent
    THEN "<" \o s \o "> " \o Rendered(e)
    ELSE "<" \o s \o "> " \o a.val \o ": " \o Rendered(e)

\* the keys a template references
TemplateKeys(t) == {t[i].text : i \in {j \in 1..Len(t) : t[j].isKey}}

\* reference substitution: the text a piece stands for
PieceText(piece, err, fn, ctx) ==
    IF ~piece.isKey THEN piece.text
    ELSE IF piece.text = "err"
    THEN (IF err.kind = "instance"
          THEN (IF err.args = <<>> THEN ""
                ELSE IF err.type = "KeyError"
                THEN "'" \o err.args[1] \o "'"
                ELSE err.args[1])
          ELSE Rendered(err))
    ELSE IF piece.text = "func_name" THEN fn
    ELSE IF ctx[piece.text].kind = "int"
    THEN ToString(ctx[piece.text].num)
    ELSE ctx[piece.text].args[1]

RECURSIVE RefSubst(_, _, _, _, _)
\* the pieces 1..n of template t, substituted and joined
RefSubst(t, n, err, fn, ctx) ==
    IF n = 0 THEN ""
    ELSE RefSubst(t, n - 1, err, fn, ctx) \o PieceText(t[n], err, fn, ctx)

(***************************************************************************)
(* C1: intercept_err_and_log with a present logger never returns normally: *)
(* it ends by raising err_raise when one is supplied and err otherwise.    *)
(***************************************************************************)
C1_InterceptAlwaysRaises ==
    (op = "intercept_err_and_log" /\ args.log_obj /\ pc = "done") =>
        /\ ~returned
        /\ raised # None
        /\ raised = IF args.err_raise # None
                    THEN AsRaised(args.err_raise)
                    ELSE AsRaised(args.err)

C1_Witness ==
    /\ op = "intercept_err_and_log" /\ pc = "done" /\ args.log_obj
    /\ args.err = ExcInstance("ValueError", <<"bad key">>)
    /\ args.err_raise = ExcInstance("RuntimeError", <<"wrapped">>)
    /\ raised = ExcInstance("RuntimeError", <<"wrapped">>)

(***************************************************************************)
(* C2: when err_raise is supplied, the raised exception's cause is err     *)
(* with from_err true, and no cause is set with from_err false.            *)
(***************************************************************************)
C2_CauseLink ==
    (op = "intercept_err_and_log" /\ args.log_obj /\ pc = "done"
        /\ args.err_raise # None) =>
        cause = IF args.from_err THEN AsRaised(args.err) ELSE None

C4_RaiseTypeAsClaimed ==
    (op = "raise_type" /\ pc = "done") =>
        /\ ~returned
        /\ IF args.err.kind = "type"
           THEN raised = IF args.err_message # Absent
                         THEN ExcInstance(args.err.type,
                                          <<args.err_message.val>>)
                         ELSE ExcInstance(args.err.type, <<>>)
           ELSE IsError(raised, "TypeError") /\ raised # args.err

\* C4 as amended: the message is used when it is given and not empty; an
\* absent or empty message gives T()
C4_RaiseType ==
    (op = "raise_type" /\ pc = "done") =>
        /\ ~returned
        /\ IF args.err.kind = "type"
           THEN raised = IF args.err_message \notin {Absent, Some("")}
                         THEN ExcInstance(args.err.type,
                                          <<args.err_message.val>>)
                         ELSE ExcInstance(args.err.type, <<>>)
           ELSE IsError(raised, "TypeError") /\ raised # args.err

C4_Witness ==
    /\ op = "raise_type" /\ pc = "done"
    /\ args.err = ExcInstance("ValueError", <<"bad key">>)
    /\ IsError(raised, "TypeError")

(***************************************************************************)
(* C5: raise_err_and_log given an exception class T and a message m writes *)
(* one record, at the given level, with the text "<label> T: m" and then   *)
(* raises T(m), for every supplied m.                                      *)
(***************************************************************************)
C5_RaiseAndLogAsClaimed ==
    (op = "raise_err_and_log" /\ pc = "done" /\ args.log_obj
        /\ args.err.kind = "type" /\ args.err_message # Absent) =>
        /\ Len(sink) = 1
        /\ sink[1].level = args.log_level
        /\ sink[1].msg = RefFormat(StrVal(args.err.type \o ": "
                                          \o args.err_message.val),
                                   func_name, args.err_annotated)
        /\ raised = ExcInstance(args.err.type, <<args.err_message.val>>)

\* C5 as amended: for every non-empty m the record's text is the formatted
\* form of T(m), which is "<label> T: " followed by str(T(m)) (m itself,
\* but m in quotes for KeyError), and T(m) is raised; with an empty m the
\* class T is what is logged and T() is raised
C5_RaiseAndLog ==
    (op = "raise_err_and_log" /\ pc = "done" /\ args.log_obj
        /\ args.err.kind = "type" /\ args.err_message # Absent) =>
        LET m == args.err_message.val
            logged == IF m # ""
                      THEN ExcInstance(args.err.type, <<m>>)
                      ELSE args.err
        IN  /\ Len(sink) = 1
            /\ sink[1].level = args.log_level
            /\ sink[1].msg = RefFormat(logged, func_name, args.err_annotated)
            /\ raised = AsRaised(logged)
            /\ ~returned

C5_Witness ==
    /\ op = "raise_err_and_log" /\ pc = "done" /\ args.log_obj
    /\ args.err = ExcType("KeyError")
    /\ args.err_message = Some("missing id")
    /\ args.source_func = [kind |-> "str", name |-> "loadConfig"]
    /\ args.err_annotated = Absent
    /\ sink = <<[level |-> ERROR,
                 msg |-> "<loadConfig> KeyError: 'missing id'",
                 kwargs |-> {}]>>
    /\ raised = ExcInstance("KeyError", <<"missing id">>)

(***************************************************************************)
(* C6: log_err with a present logger and an explicit label performs        *)
(* exactly one write, with the level, the formatted message and the        *)
(* keyword arguments it was given, and returns normally.                   *)
(***************************************************************************)
C6_LogErrWritesOnce ==
    (op = "log_err" /\ pc = "done" /\ args.log_obj
        /\ args.source_func.kind = "str") =>
        /\ sink = <<[level |-> args.log_level,
                     msg |-> RefFormat(args.err, args.source_func.name,
                                       args.err_annotated),
                     kwargs |-> args.log_kwargs]>>
        /\ returned
        /\ raised = None

C6_Witness ==
    /\ op = "log_err" /\ pc = "done" /\ returned
    /\ args.err = ExcInstance("ValueError", <<"bad key">>)
    /\ sink = <<[level |-> WARNING,
                 msg |-> "<loadConfig> ValueError: bad key",
                 kwargs |-> {"exc_info"}]>>

(***************************************************************************)
(* C7: get_simple_or_annotated equals the reference formatter for every    *)
(* exception value, label and annotation; an empty annotation is present.  *)
(***************************************************************************)
C7_SelectFormat ==
    Len(sink) = 1 =>
        sink[1].msg = RefFormat(exc_err, func_name, args.err_annotated)

C7_Witness ==
    /\ Len(sink) = 1
    /\ args.err_annotated = Some("")
    /\ exc_err = ExcInstance("ValueError", <<"bad key">>)
    /\ sink[1].msg = "<loadConfig> : ValueError: bad key"

(***************************************************************************)
(* C8: custom_msg_err fails with KeyError exactly when the template        *)
(* references a key that is neither err, func_name nor an extra keyword,   *)
(* and otherwise returns the template with every field replaced.           *)
(***************************************************************************)
C8_CustomMsg ==
    (op = "custom_msg_err" /\ pc = "done") =>
        LET t == args.template
            have == {"err", "func_name"} \cup DOMAIN args.context
        IN  IF TemplateKeys(t) \subseteq have
            THEN /\ returned
                 /\ raised = None
                 /\ result = RefSubst(t, Len(t), args.err,
                                      args.source_func.name, args.context)
            ELSE /\ ~returned
                 /\ IsError(raised, "KeyError")
                 /\ raised.args[1] \in TemplateKeys(t) \ have

C8_Witness ==
    /\ op = "custom_msg_err" /\ pc = "done" /\ returned
    /\ args.template = <<Field("err"), Field("code"), Field("func_name")>>
    /\ args.err = ExcInstance("ValueError", <<"bad key">>)
    /\ DOMAIN args.context = {"code", "user"}
    /\ result = "bad key404handler"

(***************************************************************************)
(* C9: in every call of an orchestrator with a present logger exactly one  *)
(* write happens, strictly before the exception is raised, and the call    *)
(* does not return after the write.                                        *)
(***************************************************************************)
C9_LogThenRaise ==
    /\ []((op \in Orchestrators /\ args.log_obj) =>
            /\ Len(sink) <= 1
            /\ raised # None => Len(sink) = 1
            /\ pc = "done" => (raised # None /\ ~returned))
    /\ [][(op \in Orchestrators /\ args.log_obj) =>
            /\ (raised = None /\ raised' # None) =>
                  (Len(sink) = 1 /\ sink' = sink)
            /\ (sink # <<>> /\ pc # "done") => sink' = sink]_vars

C9_Witness ==
    /\ op = "raise_err_and_log" /\ pc = "done" /\ args.log_obj
    /\ Len(sink) = 1
    /\ raised = ExcInstance("ValueError", <<"bad key">>)

====
